---------------------------- MODULE Spec2Model ----------------------------
(***************************************************************************)
(* A model of the Compass endpoint client of foundry-dev-tools             *)
(* (foundry_dev_tools/clients/compass.py): the chunked batch lookups       *)
(* get_paths and get_projects_by_rids, the cursor loops                    *)
(* get_child_objects_of_folder and search_projects, the parameter          *)
(* validation of api_search_projects and the status check of               *)
(* api_add_to_trash.  The remote service and the request dispatcher        *)
(* (APIClient.api_request) are the environment.                            *)
(***************************************************************************)
EXTENDS Integers, Sequences, FiniteSets, TLC

VARIABLES
    op,            \* the client method in progress, "none" before a call
    pc,            \* position inside the method: "idle", then per method
    calls,         \* the requests handed to the dispatcher, in order
    returned,      \* the value returned to the caller, None before
    raised,        \* the exception that left the method, None if none
    warnings,      \* the warnings issued through warnings.warn, in order
    resource_ids,  \* get_paths / get_projects_by_rids: the list argument
    server_mode,   \* how the remote service fills the values of a response
    batch_i,       \* 1-based index of the next element of `batches`
    result,        \* the `result` dict being merged
    args,          \* the arguments of a paging or single-request method
    backing_n,     \* the remote collection a listing pages over: <<1, ..., n>>
    page_token,    \* the local page_token of a cursor loop
    response,      \* response_as_json of the latest page, None before
    yield_i,       \* 1-based index of the next element of the page to yield
    yielded,       \* the elements the caller has received, in order
    asked,         \* how many elements the caller has asked a generator for
    other          \* the locals of a second call on the same client, parked

common_vars == <<op, pc, calls, returned, raised, warnings>>
batch_vars == <<resource_ids, server_mode, batch_i, result>>
page_vars == <<args, backing_n, page_token, response, yield_i, yielded>>

caller_vars == <<asked, other>>

vars == <<common_vars, batch_vars, page_vars, caller_vars>>

(***************************************************************************)
(* Python's None and optional values: None is the empty sequence and a     *)
(* present value x is the one-element sequence <<x>>, so that a value and  *)
(* its absence can always be compared.                                     *)
(***************************************************************************)
None == << >>
Some(x) == << x >>
Value(o) == o[1]

(***************************************************************************)
(* Module constants of compass.py.                                         *)
(***************************************************************************)
GET_PATHS_BATCH_SIZE == 100
GET_PROJECTS_BATCH_SIZE == 1

(***************************************************************************)
(* Bounds of the model.                                                    *)
(***************************************************************************)
\* longest list handed to get_paths
MaxPaths == 250
\* longest list handed to get_projects_by_rids
MaxProjects == 104
\* list lengths are taken within LenSpread of a multiple of the batch size
LenSpread == 2

Min(a, b) == IF a < b THEN a ELSE b

(***************************************************************************)
(* Python list and dict primitives used by the batch methods.              *)
(***************************************************************************)
\* range(start, stop, step) for step > 0, as a sequence
PyRange(start, stop, step) ==
    IF stop <= start THEN << >>
    ELSE [k \in 1..(((stop - start - 1) \div step) + 1) |-> start + (k - 1) * step]

\* a slice that takes the element at the end index too (an off-by-one)
PySliceInclusive(s, i, j) == SubSeq(s, i + 1, Min(j + 1, Len(s)))

\* s[i:j] for 0 <= i <= j (0-based, half-open, clipped to the list)
PySlice(s, i, j) == SubSeq(s, i + 1, Min(j, Len(s)))

EmptyDict == [k \in {} |-> 0]

\* a merge that drops what was merged before: result = response.json()
DictReplace(a, b) == b

\* a merge in which the entries already present win: {**b, **a}
DictMergeKeepFirst(a, b) ==
    [k \in (DOMAIN a) \cup (DOMAIN b) |-> IF k \in DOMAIN a THEN a[k] ELSE b[k]]

\* {**a, **b} and a.update(b): the entries of b replace those of a
DictMerge(a, b) ==
    [k \in (DOMAIN a) \cup (DOMAIN b) |-> IF k \in DOMAIN b THEN b[k] ELSE a[k]]

SeqToSet(s) == {s[i] : i \in DOMAIN s}

(***************************************************************************)
(* The lists a caller passes: n identifiers, the i-th being 1 + (i-1) % m. *)
(* m > n gives n distinct identifiers, a smaller m repeats identifiers     *)
(* (inside one chunk for m = 3, across chunks for m = 101).                *)
(***************************************************************************)
IdList(n, m) == [i \in 1..n |-> 1 + ((i - 1) % m)]

\* the list lengths tried: around every multiple of the batch size, and maxlen
ListLengths(maxlen) ==
    {n \in 0..maxlen :
        \/ n % GET_PATHS_BATCH_SIZE <= LenSpread
        \/ n % GET_PATHS_BATCH_SIZE >= GET_PATHS_BATCH_SIZE - LenSpread
        \/ n = maxlen}

IdModuli(maxlen) == {3, GET_PATHS_BATCH_SIZE + 1, maxlen + 2}

ServerModes == {"stable", "per_call"}

(***************************************************************************)
(* The remote service: a batched call is answered with one entry per       *)
(* identifier of the request body.  A "stable" service maps an identifier  *)
(* to the same value in every call; a "per_call" service answers the c-th  *)
(* call with values that differ from those of every other call.            *)
(***************************************************************************)
BatchResponse(mode, body, c) ==
    [k \in SeqToSet(body) |-> IF mode = "stable" THEN 0 ELSE c]

(***************************************************************************)
(* get_paths, compass.py 303-307: the list of batches.                     *)
(***************************************************************************)
PathBatches(ids) ==
    LET list_len == Len(ids) IN
    IF list_len < GET_PATHS_BATCH_SIZE
    THEN << ids >>
    ELSE LET starts == PyRange(0, list_len, GET_PATHS_BATCH_SIZE) IN
         [k \in DOMAIN starts |-> PySlice(ids, starts[k], starts[k] + GET_PATHS_BATCH_SIZE)]

(***************************************************************************)
(* get_projects_by_rids, compass.py 648-652: the slices are                *)
(* GET_PATHS_BATCH_SIZE wide and start every GET_PROJECTS_BATCH_SIZE.      *)
(***************************************************************************)
ProjectBatches(rids) ==
    LET list_len == Len(rids) IN
    IF list_len < GET_PATHS_BATCH_SIZE
    THEN << rids >>
    ELSE LET starts == PyRange(0, list_len, GET_PROJECTS_BATCH_SIZE) IN
         [k \in DOMAIN starts |-> PySlice(rids, starts[k], starts[k] + GET_PATHS_BATCH_SIZE)]

Batches == IF op = "get_paths" THEN PathBatches(resource_ids)
           ELSE ProjectBatches(resource_ids)

(***************************************************************************)
(* get_paths(resource_ids)                                                 *)
(***************************************************************************)
\* entry: the arguments are bound, result = {}
GetPathsCall ==
    /\ pc = "idle"
    /\ \E n \in ListLengths(MaxPaths), m \in IdModuli(MaxPaths), mode \in ServerModes :
         /\ resource_ids' = IdList(n, m)
         /\ server_mode' = mode
    /\ op' = "get_paths"
    /\ pc' = "loop"
    /\ batch_i' = 1
    /\ result' = EmptyDict
    /\ calls' = << >>
    /\ UNCHANGED <<returned, raised, warnings, page_vars, caller_vars>>

\* one iteration of `for batch in batches` (line 310): api_get_paths(batch),
\* then result = {**result, **response.json()}
GetPathsBatch ==
    /\ op = "get_paths" /\ pc = "loop"
    /\ batch_i <= Len(Batches)
    /\ LET batch == Batches[batch_i]
           json == BatchResponse(server_mode, batch, batch_i)
       IN /\ calls' = Append(calls, batch)
          /\ result' = DictMerge(result, json)
    /\ batch_i' = batch_i + 1
    /\ UNCHANGED <<op, pc, resource_ids, server_mode, returned, raised, warnings, page_vars, caller_vars>>

\* line 311: return result
GetPathsReturn ==
    /\ op = "get_paths" /\ pc = "loop"
    /\ batch_i > Len(Batches)
    /\ returned' = Some(result)
    /\ pc' = "done"
    /\ UNCHANGED <<op, resource_ids, server_mode, batch_i, result, calls, raised, warnings, page_vars, caller_vars>>

(***************************************************************************)
(* get_projects_by_rids(rids)                                              *)
(***************************************************************************)
GetProjectsCall ==
    /\ pc = "idle"
    /\ \E n \in ListLengths(MaxProjects), m \in IdModuli(MaxProjects), mode \in ServerModes :
         /\ resource_ids' = IdList(n, m)
         /\ server_mode' = mode
    /\ op' = "get_projects_by_rids"
    /\ pc' = "loop"
    /\ batch_i' = 1
    /\ result' = EmptyDict
    /\ calls' = << >>
    /\ UNCHANGED <<returned, raised, warnings, page_vars, caller_vars>>

\* one iteration of `for batch in batches` (line 656):
\* result.update(api_get_projects_by_rids(batch).json())
GetProjectsBatch ==
    /\ op = "get_projects_by_rids" /\ pc = "loop"
    /\ batch_i <= Len(Batches)
    /\ LET batch == Batches[batch_i]
           json == BatchResponse(server_mode, batch, batch_i)
       IN /\ calls' = Append(calls, batch)
          /\ result' = DictMerge(result, json)
    /\ batch_i' = batch_i + 1
    /\ UNCHANGED <<op, pc, resource_ids, server_mode, returned, raised, warnings, page_vars, caller_vars>>

\* line 658: return result
GetProjectsReturn ==
    /\ op = "get_projects_by_rids" /\ pc = "loop"
    /\ batch_i > Len(Batches)
    /\ returned' = Some(result)
    /\ pc' = "done"
    /\ UNCHANGED <<op, resource_ids, server_mode, batch_i, result, calls, raised, warnings, page_vars, caller_vars>>

\* the locals of a call that has not started
IdleFrame ==
    [op |-> "none", pc |-> "idle", calls |-> << >>, returned |-> None,
     raised |-> None, warnings |-> << >>, resource_ids |-> << >>,
     server_mode |-> "stable", batch_i |-> 1, result |-> EmptyDict,
     args |-> None, backing_n |-> 0, page_token |-> None, response |-> None,
     yield_i |-> 1, yielded |-> << >>]

\* a client just constructed: no call made, nothing sent
Init ==
    /\ op = "none"
    /\ pc = "idle"
    /\ calls = << >>
    /\ returned = None
    /\ raised = None
    /\ warnings = << >>
    /\ resource_ids = << >>
    /\ server_mode = "stable"
    /\ batch_i = 1
    /\ result = EmptyDict
    /\ args = None
    /\ backing_n = 0
    /\ page_token = None
    /\ response = None
    /\ yield_i = 1
    /\ yielded = << >>
    /\ asked = 0
    /\ other = IdleFrame

BatchNext ==
    \/ GetPathsCall
    \/ GetPathsBatch
    \/ GetPathsReturn
    \/ GetProjectsCall
    \/ GetProjectsBatch
    \/ GetProjectsReturn

SpecBatch == Init /\ [][BatchNext]_vars


(***************************************************************************)
(* Strings are sequences of one-character strings.  The operators below    *)
(* are the str and int operations the client applies to a page token.      *)
(***************************************************************************)
Digits == <<"0", "1", "2", "3", "4", "5", "6", "7", "8", "9">>
DigitChars == SeqToSet(Digits)
DigitValue(c) == (CHOOSE d \in DOMAIN Digits : Digits[d] = c) - 1

\* str.isdecimal(): at least one character, and every character a decimal digit
IsDecimal(s) == Len(s) > 0 /\ \A i \in DOMAIN s : s[i] \in DigitChars

\* the value of a string of decimal digits
RECURSIVE DecimalValue(_)
DecimalValue(s) ==
    IF s = << >> THEN 0
    ELSE DecimalValue(SubSeq(s, 1, Len(s) - 1)) * 10 + DigitValue(s[Len(s)])

\* str.strip() for the blank character
RECURSIVE Strip(_)
Strip(s) ==
    IF s = << >> THEN s
    ELSE IF s[1] = " " THEN Strip(Tail(s))
    ELSE IF s[Len(s)] = " " THEN Strip(SubSeq(s, 1, Len(s) - 1))
    ELSE s

\* int(s): blanks around the number and one leading sign are accepted
PyIntBody(s) ==
    LET t == Strip(s) IN IF t # << >> /\ t[1] \in {"+", "-"} THEN Tail(t) ELSE t
PyIntParses(s) == IsDecimal(PyIntBody(s))
PyInt(s) ==
    LET t == Strip(s) IN
    IF t[1] = "-" THEN 0 - DecimalValue(PyIntBody(s)) ELSE DecimalValue(PyIntBody(s))

\* str(n) for n >= 0
RECURSIVE IntToStr(_)
IntToStr(n) ==
    IF n < 10 THEN << Digits[n + 1] >>
    ELSE IntToStr(n \div 10) \o << Digits[(n % 10) + 1] >>

(***************************************************************************)
(* api_search_projects, compass.py 695-794.                                *)
(***************************************************************************)
DEFAULT_PROJECTS_PAGE_SIZE == 100
MINIMUM_PROJECTS_PAGE_SIZE == 1
MAXIMUM_PROJECTS_PAGE_SIZE == 500
MINIMUM_PROJECTS_SEARCH_OFFSET == 0
MAXIMUM_PROJECTS_SEARCH_OFFSET == 500

\* a clamp whose upper branch is taken from the limit itself on
ClampPageSizeOffByOne(page_size) ==
    IF page_size < MINIMUM_PROJECTS_PAGE_SIZE THEN MINIMUM_PROJECTS_PAGE_SIZE
    ELSE IF page_size >= MAXIMUM_PROJECTS_PAGE_SIZE THEN MAXIMUM_PROJECTS_PAGE_SIZE - 1
    ELSE page_size

\* lines 737-750: the page size that goes into the request body
ClampPageSize(page_size) ==
    IF page_size < MINIMUM_PROJECTS_PAGE_SIZE THEN MINIMUM_PROJECTS_PAGE_SIZE
    ELSE IF page_size > MAXIMUM_PROJECTS_PAGE_SIZE THEN MAXIMUM_PROJECTS_PAGE_SIZE
    ELSE page_size

\* lines 737-750: the warnings.warn calls of the two clamping branches
PageSizeWarnings(page_size) ==
    IF page_size < MINIMUM_PROJECTS_PAGE_SIZE THEN << "page_size less than minimum" >>
    ELSE IF page_size > MAXIMUM_PROJECTS_PAGE_SIZE THEN << "page_size greater than maximum" >>
    ELSE << >>

\* a validation that only looks at the range of tokens that are numbers
PageTokenErrorNoFormatCheck(token) ==
    IF token = None THEN None
    ELSE IF ~IsDecimal(Value(token)) THEN None
    ELSE IF DecimalValue(Value(token)) > MAXIMUM_PROJECTS_SEARCH_OFFSET
         THEN Some([type |-> "ValueError", msg |-> "greater than maximum search offset"])
    ELSE None

\* lines 752-774: the ValueError raised for page_token (here: token), None when it passes
PageTokenError(token) ==
    IF token = None THEN None
    ELSE IF ~IsDecimal(Value(token))
         THEN Some([type |-> "ValueError", msg |-> "expected to contain a number"])
    ELSE LET page_token_int == DecimalValue(Value(token)) IN
         IF page_token_int < MINIMUM_PROJECTS_SEARCH_OFFSET
         THEN Some([type |-> "ValueError", msg |-> "less than minimum search offset"])
         ELSE IF page_token_int > MAXIMUM_PROJECTS_SEARCH_OFFSET
         THEN Some([type |-> "ValueError", msg |-> "greater than maximum search offset"])
         ELSE None

(***************************************************************************)
(* Decorations: api_types.py 86-146 and get_decoration, compass.py 53-60.  *)
(* A decoration argument is None, the sentinel "all" or a set of tags; a   *)
(* value is written [kind, items] with kind "all", "set" or "list" so that *)
(* the three shapes can be compared.                                       *)
(***************************************************************************)
\* api_types.py 86-114: the ResourceDecoration literal, in its written order
ResourceDecoration ==
    <<"description", "favorite", "branches", "defaultBranch",
      "defaultBranchWithMarkings", "branchesCount", "hasBranches",
      "hasMultipleBranches", "backedObjectTypes", "path", "longDescription",
      "inTrash", "collections", "namedCollections", "tags", "namedTags",
      "alias", "collaborators", "namedAncestors", "markings",
      "projectAccessMarkings", "linkedItems", "contactInformation",
      "classification", "disableInheritedPermissions", "propagatePermissions",
      "resourceLevelRoleGrantsAllowed">>

\* api_types.py 118-146
ALL_RESOURCE_DECORATIONS ==
    {"description", "favorite", "branches", "defaultBranch",
     "defaultBranchWithMarkings", "branchesCount", "hasBranches",
     "hasMultipleBranches", "backedObjectTypes", "path", "longDescription",
     "inTrash", "collections", "namedCollections", "tags", "namedTags",
     "alias", "collaborators", "namedAncestors", "markings",
     "projectAccessMarkings", "linkedItems", "contactInformation",
     "classification", "disableInheritedPermissions", "propagatePermissions",
     "resourceLevelRoleGrantsAllowed"}

\* a tag that is not in the vocabulary
UnknownTag == "notADecoration"

\* every tag a caller passes, in one fixed order
TagUniverse == ResourceDecoration \o << UnknownTag >>

\* number of vocabulary tags explicit sets are built from
MaxExplicitTags == 3
\* number of iteration orders of a set tried (a set has no defined order)
MaxSetOrder == 2

AllSentinel == [kind |-> "all", items |-> {}]
PySet(S) == [kind |-> "set", items |-> S]
PyListValue(q) == [kind |-> "list", items |-> q]

\* the sequence q rotated left by r
Rotate(q, r) ==
    LET n == Len(q) IN [i \in 1..n |-> q[((i - 1 + r) % n) + 1]]

\* list(S): the elements of S, each once, in the iteration order numbered by
\* `order`
PyList(S, order) ==
    LET q == Rotate(TagUniverse, order) IN
    PyListValue(SelectSeq(q, LAMBDA x : x \in S))

\* the decoration arguments tried
DecorationInputs ==
    {None, Some(AllSentinel)}
        \cup {Some(PySet(S)) :
                 S \in SUBSET (SeqToSet(SubSeq(ResourceDecoration, 1, MaxExplicitTags))
                                  \cup {UnknownTag})}

\* a get_decoration that hands the set on where a list is asked for
get_decoration_never_converts(decoration, conv, order) ==
    IF decoration = Some(AllSentinel) THEN Some(PySet(ALL_RESOURCE_DECORATIONS))
    ELSE decoration

\* a get_decoration that answers an unset argument with an empty list
get_decoration_empty_for_none(decoration, conv, order) ==
    IF decoration = Some(AllSentinel)
    THEN (IF conv THEN Some(PyList(ALL_RESOURCE_DECORATIONS, order))
          ELSE Some(PySet(ALL_RESOURCE_DECORATIONS)))
    ELSE IF decoration = None THEN Some(PyListValue(<< >>))
    ELSE (IF conv THEN Some(PyList(Value(decoration).items, order)) ELSE decoration)

\* compass.py 58-60; `order` is the iteration order list() meets
get_decoration(decoration, conv, order) ==
    IF decoration = Some(AllSentinel)
    THEN (IF conv THEN Some(PyList(ALL_RESOURCE_DECORATIONS, order))
          ELSE Some(PySet(ALL_RESOURCE_DECORATIONS)))
    ELSE IF decoration = None THEN None
    ELSE (IF conv THEN Some(PyList(Value(decoration).items, order)) ELSE decoration)

\* one call of get_decoration(decoration, conv)
GetDecoration ==
    /\ pc = "idle"
    /\ \E decoration \in DecorationInputs, conv \in BOOLEAN, order \in 0..MaxSetOrder :
         /\ args' = [decoration |-> decoration, conv |-> conv, order |-> order]
         /\ returned' = Some(get_decoration(decoration, conv, order))
    /\ op' = "get_decoration"
    /\ pc' = "done"
    /\ UNCHANGED <<calls, raised, warnings, batch_vars, backing_n, page_token, response, yield_i, yielded, caller_vars>>

\* lines 776-787: the JSON body (the fields this model follows)
SearchBody(page_size, token) ==
    [endpoint |-> "search/projects", pageSize |-> page_size, pageToken |-> token]

\* the request is handed to the dispatcher first and the token checked after
ApiSearchProjectsRunSendFirst(page_size, token) ==
    [warnings |-> PageSizeWarnings(page_size),
     raised   |-> PageTokenError(token),
     requests |-> << SearchBody(ClampPageSize(page_size), token) >>]

\* api_search_projects up to the dispatcher call: the warnings issued, the
\* exception raised (None if none) and the requests handed to api_request
ApiSearchProjectsRun(page_size, token) ==
    LET err == PageTokenError(token) IN
    [warnings |-> PageSizeWarnings(page_size),
     raised   |-> err,
     requests |-> IF err # None THEN << >>
                  ELSE << SearchBody(ClampPageSize(page_size), token) >>]


(***************************************************************************)
(* The arguments tried for one api_search_projects call.                   *)
(***************************************************************************)
\* page sizes are taken within PageSpread of the two limits, and one beyond
PageSpread == 2
\* longest page_token string
MaxTokenLen == 4

PageSizeInputs ==
    {p \in (MINIMUM_PROJECTS_PAGE_SIZE - PageSpread - 1)..(MAXIMUM_PROJECTS_PAGE_SIZE + PageSpread + 1) :
        \/ p <= MINIMUM_PROJECTS_PAGE_SIZE + PageSpread
        \/ p >= MAXIMUM_PROJECTS_PAGE_SIZE - PageSpread}

TokenChars == {"0", "1", "5", "-", "+", "a"}

TokenStrings == UNION {[1..n -> TokenChars] : n \in 0..MaxTokenLen}

TokenInputs == {None} \cup {Some(t) : t \in TokenStrings}

\* the dispatcher's answer to a request that was sent
OkResponse == [status_code |-> 200]

\* lines 734-735: decorations is resolved only when it is given
SearchDecorations(decorations, order) ==
    IF decorations # None THEN get_decoration(decorations, TRUE, order) ELSE decorations

\* line 778: the body's "decorations" entry, added to each request of a run
WithDecorations(requests, decorations) ==
    [i \in DOMAIN requests |-> requests[i] @@ [decorations |-> decorations]]

\* the argument combinations tried: every page_size and page_token without
\* decorations, and every decorations value with a few of the others
SearchProjectsInputs ==
    [page_size : PageSizeInputs, page_token : TokenInputs,
     decorations : {None}, order : {0}]
    \cup [page_size : {DEFAULT_PROJECTS_PAGE_SIZE, MINIMUM_PROJECTS_PAGE_SIZE - 1},
          page_token : {None, Some(<<"1">>), Some(<<"a">>)},
          decorations : DecorationInputs, order : 0..MaxSetOrder]

\* one call of api_search_projects(decorations=..., page_size=..., page_token=...)
ApiSearchProjects ==
    /\ pc = "idle"
    /\ \E a \in SearchProjectsInputs :
         LET run == ApiSearchProjectsRun(a.page_size, a.page_token) IN
         /\ args' = a
         /\ warnings' = run.warnings
         /\ calls' = WithDecorations(run.requests, SearchDecorations(a.decorations, a.order))
         /\ raised' = run.raised
         /\ returned' = IF run.raised = None THEN Some(OkResponse) ELSE None
         /\ pc' = IF run.raised = None THEN "done" ELSE "raised"
    /\ op' = "api_search_projects"
    /\ UNCHANGED <<batch_vars, backing_n, page_token, response, yield_i, yielded, caller_vars>>

(***************************************************************************)
(* api_add_to_trash, compass.py 159-184.                                   *)
(***************************************************************************)
\* requests.codes.no_content
NO_CONTENT == 204

\* largest resource identifier in a set handed to a trash call
MaxTrashRids == 2

StatusCodes == {200, 202, NO_CONTENT, 400, 404, 500}

BearerTokens == {None, Some(""), Some("secret")}

\* a header for every token that is not None, the empty one included
UserBearerHeadersForAnyToken(user_bearer_token) ==
    IF user_bearer_token # None
    THEN Some([name |-> "User-Bearer-Token", value |-> <<"Bearer ", Value(user_bearer_token)>>])
    ELSE None

\* {"User-Bearer-Token": f"Bearer {user_bearer_token}"} if user_bearer_token else None
UserBearerHeaders(user_bearer_token) ==
    IF user_bearer_token # None /\ Value(user_bearer_token) # ""
    THEN Some([name |-> "User-Bearer-Token", value |-> <<"Bearer ", Value(user_bearer_token)>>])
    ELSE None

\* an error configuration without the identifiers
TrashAddErrorConfigNoRids(rids) ==
    [info |-> "Issue while moving resource(s) to trash.", kwargs |-> << >>]

\* line 182: ErrorHandlingConfig(info=..., rids=rids); kwargs is a dict
TrashAddErrorConfig(rids) ==
    [info |-> "Issue while moving resource(s) to trash.", kwargs |-> [rids |-> rids]]

\* line 179: response.status_code != requests.codes.no_content
TrashStatusFails(status_code) == status_code # NO_CONTENT

\* raise_foundry_api_error(response, error_handling) of errors/handling.py:
\* raises an API error that carries the response, the info text and the
\* keyword context of the configuration
RaiseFoundryApiError(resp, error_handling) ==
    Some([type |-> "FoundryAPIError", response |-> resp,
          info |-> error_handling.info, kwargs |-> error_handling.kwargs])

\* one call of api_add_to_trash(rids, user_bearer_token); the dispatcher
\* returns a response with any of the status codes
ApiAddToTrash ==
    /\ pc = "idle"
    /\ \E rids \in SUBSET (1..MaxTrashRids), user_bearer_token \in BearerTokens,
          status_code \in StatusCodes :
         LET resp == [status_code |-> status_code] IN
         /\ args' = [rids |-> rids, user_bearer_token |-> user_bearer_token]
         /\ calls' = << [endpoint |-> "batch/trash/add",
                         headers |-> UserBearerHeaders(user_bearer_token),
                         json |-> rids] >>
         /\ response' = Some(resp)
         /\ IF TrashStatusFails(resp.status_code)
            THEN /\ raised' = RaiseFoundryApiError(resp, TrashAddErrorConfig(rids))
                 /\ returned' = None
                 /\ pc' = "raised"
            ELSE /\ raised' = None
                 /\ returned' = Some(resp)
                 /\ pc' = "done"
    /\ op' = "api_add_to_trash"
    /\ UNCHANGED <<warnings, batch_vars, backing_n, page_token, yield_i, yielded, caller_vars>>

(***************************************************************************)
(* api_restore, compass.py 186-208.                                        *)
(***************************************************************************)
\* line 207: ErrorHandlingConfig(info=...); no keyword context is passed
RestoreErrorConfig(rids) ==
    [info |-> "Issue while restoring resource(s) from trash.", kwargs |-> << >>]

\* one call of api_restore(rids, user_bearer_token); the dispatcher returns a
\* response with any of the status codes
ApiRestore ==
    /\ pc = "idle"
    /\ \E rids \in SUBSET (1..MaxTrashRids), user_bearer_token \in BearerTokens,
          status_code \in StatusCodes :
         LET resp == [status_code |-> status_code] IN
         /\ args' = [rids |-> rids, user_bearer_token |-> user_bearer_token]
         /\ calls' = << [endpoint |-> "batch/trash/restore",
                         headers |-> UserBearerHeaders(user_bearer_token),
                         json |-> rids] >>
         /\ response' = Some(resp)
         /\ IF TrashStatusFails(resp.status_code)
            THEN /\ raised' = RaiseFoundryApiError(resp, RestoreErrorConfig(rids))
                 /\ returned' = None
                 /\ pc' = "raised"
            ELSE /\ raised' = None
                 /\ returned' = Some(resp)
                 /\ pc' = "done"
    /\ op' = "api_restore"
    /\ UNCHANGED <<warnings, batch_vars, backing_n, page_token, yield_i, yielded, caller_vars>>

(***************************************************************************)
(* The dispatcher api_request and the error configurations handed to it.   *)
(* An ErrorHandlingConfig is written [status_mapping, code_mapping,        *)
(* kwargs]: api_error_mapping split by the type of its keys (HTTP status   *)
(* or server error name), each a set of <<key, error>> pairs.              *)
(***************************************************************************)
Rids == {"ri.compass.main.folder.a", "ri.compass.main.folder.b"}

FoundryPaths == {"/Global/a", "/Global/b"}

\* what the service answers: a status and, for a failure, an error name
ServerAnswers ==
    {[status_code |-> sc, error_name |-> None] : sc \in {200, NO_CONTENT, 404, 500}}
        \cup {[status_code |-> sc, error_name |-> Some(e)] :
                 sc \in {400, 404}, e \in {"Compass:NotFound", "Compass:Forbidden"}}

\* an operation that passes no error_handling
DefaultErrorHandling ==
    [status_mapping |-> {}, code_mapping |-> {}, kwargs |-> << >>]

\* a lookup whose 204 answer is left unmapped
ResourceErrorHandlingUnmapped(kwargs) ==
    [status_mapping |-> {}, code_mapping |-> {}, kwargs |-> kwargs]

\* lines 93 and 124: ErrorHandlingConfig(api_error_mapping={204: ResourceNotFoundError}, ...)
ResourceErrorHandling(kwargs) ==
    [status_mapping |-> {<<NO_CONTENT, "ResourceNotFoundError">>},
     code_mapping |-> {}, kwargs |-> kwargs]

\* lines 155 and 357: ErrorHandlingConfig({"Compass:NotFound": FolderNotFoundError})
FolderErrorHandling ==
    [status_mapping |-> {},
     code_mapping |-> {<<"Compass:NotFound", "FolderNotFoundError">>},
     kwargs |-> << >>]

\* the error a table maps a key to, None if the key is not in it
Mapped(mapping, key) ==
    IF \E m \in mapping : m[1] = key
    THEN Some((CHOOSE m \in mapping : m[1] = key)[2])
    ELSE None

\* APIClient.api_request: the table of the configuration is consulted first,
\* by status and by error name; an unmapped failure status gives the generic
\* failure; anything else is returned
ApiRequest(request, answer) ==
    LET eh == request.error_handling
        by_status == Mapped(eh.status_mapping, answer.status_code)
        by_name == IF answer.error_name = None THEN None
                   ELSE Mapped(eh.code_mapping, Value(answer.error_name))
        Failure(kind) == Some([type |-> kind, response |-> answer, kwargs |-> eh.kwargs])
    IN
    IF by_status # None THEN [raised |-> Failure(Value(by_status)), returned |-> None]
    ELSE IF by_name # None THEN [raised |-> Failure(Value(by_name)), returned |-> None]
    ELSE IF answer.status_code >= 400
    THEN [raised |-> Failure("FoundryAPIError"), returned |-> None]
    ELSE [raised |-> None, returned |-> Some(answer)]

\* one request handed to the dispatcher and its outcome taken over by the call
Dispatched(request, answer) ==
    LET outcome == ApiRequest(request, answer) IN
    /\ calls' = << request >>
    /\ response' = Some(answer)
    /\ raised' = outcome.raised
    /\ returned' = outcome.returned
    /\ pc' = IF outcome.raised = None THEN "done" ELSE "raised"

(***************************************************************************)
(* api_get_resource, api_get_resource_by_path, api_check_name,             *)
(* api_get_children, api_get_resources.                                    *)
(***************************************************************************)
OptionalBools == {None, Some(TRUE), Some(FALSE)}

AdditionalOperations == {None, Some({"compass:read"})}

\* list(S) of a set of at most one element
ListOfSmall(S) == IF S = {} THEN << >> ELSE << CHOOSE x \in S : TRUE >>

\* lines 86-89 and 116-119: the two optional query parameters
OptionalParams(permissive_folders, additional_operations) ==
    (IF permissive_folders # None
     THEN [permissiveFolders |-> Value(permissive_folders)] ELSE << >>)
    @@ (IF additional_operations # None
        THEN [additionalOperations |-> Value(additional_operations)] ELSE << >>)

\* lines 85-96
GetResourceRequest(rid, decoration, order, permissive_folders, additional_operations) ==
    [method |-> "GET",
     endpoint |-> <<"resources/", rid>>,
     params |-> [decoration |-> get_decoration(decoration, TRUE, order)]
                    @@ OptionalParams(permissive_folders, additional_operations),
     error_handling |-> ResourceErrorHandling(<< >>)]

\* lines 115-126
GetResourceByPathRequest(path, decoration, order, permissive_folders, additional_operations) ==
    [method |-> "GET",
     endpoint |-> <<"resources">>,
     params |-> [path |-> path, decoration |-> get_decoration(decoration, TRUE, order)]
                    @@ OptionalParams(permissive_folders, additional_operations),
     error_handling |-> ResourceErrorHandling([path |-> path])]

\* one call of api_get_resource
ApiGetResource ==
    /\ pc = "idle"
    /\ \E rid \in Rids, decoration \in DecorationInputs, order \in 0..MaxSetOrder,
          permissive_folders \in OptionalBools,
          additional_operations \in AdditionalOperations, answer \in ServerAnswers :
         /\ args' = [rid |-> rid, decoration |-> decoration, order |-> order]
         /\ Dispatched(GetResourceRequest(rid, decoration, order, permissive_folders,
                                          additional_operations), answer)
    /\ op' = "api_get_resource"
    /\ UNCHANGED <<warnings, batch_vars, backing_n, page_token, yield_i, yielded, caller_vars>>

\* one call of api_get_resource_by_path
ApiGetResourceByPath ==
    /\ pc = "idle"
    /\ \E path \in FoundryPaths, decoration \in DecorationInputs, order \in 0..MaxSetOrder,
          permissive_folders \in OptionalBools,
          additional_operations \in AdditionalOperations, answer \in ServerAnswers :
         /\ args' = [path |-> path, decoration |-> decoration, order |-> order]
         /\ Dispatched(GetResourceByPathRequest(path, decoration, order, permissive_folders,
                                                additional_operations), answer)
    /\ op' = "api_get_resource_by_path"
    /\ UNCHANGED <<warnings, batch_vars, backing_n, page_token, yield_i, yielded, caller_vars>>

\* lines 146-157: the name is put in the body only when it is given
CheckNameRequest(parent_folder_rid, name) ==
    [method |-> "POST",
     endpoint |-> <<"resources/", parent_folder_rid, "/checkName">>,
     json |-> IF name # None THEN [name |-> Value(name)] ELSE << >>,
     error_handling |-> FolderErrorHandling]

\* one call of api_check_name
ApiCheckName ==
    /\ pc = "idle"
    /\ \E parent_folder_rid \in Rids, name \in {None, Some("report")},
          answer \in ServerAnswers :
         /\ args' = [parent_folder_rid |-> parent_folder_rid, name |-> name]
         /\ Dispatched(CheckNameRequest(parent_folder_rid, name), answer)
    /\ op' = "api_check_name"
    /\ UNCHANGED <<warnings, batch_vars, backing_n, page_token, yield_i, yielded, caller_vars>>

\* lines 344-358: every argument is passed on, None included
GetChildrenRequest(rid, decoration, order, limit, token, permissive_folders) ==
    [method |-> "GET",
     endpoint |-> <<"folders/", rid, "/children">>,
     params |-> [filter |-> None,
                 decoration |-> get_decoration(decoration, TRUE, order),
                 limit |-> limit,
                 sort |-> None,
                 pageToken |-> token,
                 permissiveFolders |-> permissive_folders,
                 includeOperations |-> FALSE,
                 additionalOperations |-> None],
     error_handling |-> FolderErrorHandling]

\* one call of api_get_children
ApiGetChildren ==
    /\ pc = "idle"
    /\ \E rid \in Rids, decoration \in DecorationInputs, order \in 0..MaxSetOrder,
          limit \in {None, Some(10)}, token \in {None, Some(<<"1">>)},
          permissive_folders \in OptionalBools, answer \in ServerAnswers :
         /\ args' = [rid |-> rid, decoration |-> decoration, order |-> order]
         /\ Dispatched(GetChildrenRequest(rid, decoration, order, limit, token,
                                          permissive_folders), answer)
    /\ op' = "api_get_children"
    /\ UNCHANGED <<warnings, batch_vars, backing_n, page_token, yield_i, yielded, caller_vars>>

\* lines 422-431: no error configuration is passed
GetResourcesRequest(rids, decoration, order, include_operations, additional_operations) ==
    [method |-> "POST",
     endpoint |-> <<"batch/resources">>,
     params |-> [decoration |-> get_decoration(decoration, TRUE, order),
                 includeOperations |-> include_operations,
                 additionalOperations |->
                     IF additional_operations # None
                     THEN Some(ListOfSmall(Value(additional_operations))) ELSE None],
     json |-> rids,
     error_handling |-> DefaultErrorHandling]

\* one call of api_get_resources
ApiGetResources ==
    /\ pc = "idle"
    /\ \E rids \in SUBSET Rids, decoration \in DecorationInputs, order \in 0..MaxSetOrder,
          include_operations \in BOOLEAN,
          additional_operations \in AdditionalOperations, answer \in ServerAnswers :
         /\ args' = [rids |-> rids, decoration |-> decoration, order |-> order]
         /\ Dispatched(GetResourcesRequest(rids, decoration, order, include_operations,
                                           additional_operations), answer)
    /\ op' = "api_get_resources"
    /\ UNCHANGED <<warnings, batch_vars, backing_n, page_token, yield_i, yielded, caller_vars>>

(***************************************************************************)
(* assert_in_literal, api_types.py 8-20.  A Literal is written as the      *)
(* tuple of its options (get_args); a message is written as the sequence   *)
(* of the pieces the f-string joins.                                       *)
(***************************************************************************)
\* api_types.py 351
PatchOperation == <<"ADD", "REMOVE">>
\* api_types.py 65
FoundryTransaction == <<"SNAPSHOT", "UPDATE", "APPEND", "DELETE">>
\* api_types.py 260
DisableInheritedPermissionsType == <<"NONE", "ALL", "ALL_WITHOUT_MANDATORY">>

Literals == {PatchOperation, FoundryTransaction, DisableInheritedPermissionsType}

\* the candidate values tried: every option of every literal and some others
OptionCandidates ==
    UNION {SeqToSet(l) : l \in Literals} \cup {"add", "", "ADD ", "MOVE"}

VariableNames == {"path_operation_type", "transaction_type"}

\* repr of a tuple of strings: ('ADD', 'REMOVE'), and ('ADD',) for one
TupleRepr(options) ==
    LET Item(i) == (IF i > 1 THEN <<", ">> ELSE << >>) \o <<"'", options[i], "'">>
        Items[i \in 0..Len(options)] == IF i = 0 THEN << >> ELSE Items[i - 1] \o Item(i)
    IN <<"(">> \o Items[Len(options)]
           \o (IF Len(options) = 1 THEN <<",">> ELSE << >>) \o <<")">>

\* api_types.py 19: the f-string
LiteralErrorMessage(option, variable_name, options) ==
    <<"'", option, "' is not a valid option for ", variable_name,
      ", valid options are ">> \o TupleRepr(options)

\* an assert_in_literal that compares with the first option only
assert_in_literal_first_only(option, literal, variable_name) ==
    IF option # literal[1]
    THEN Some([type |-> "TypeError",
               msg |-> LiteralErrorMessage(option, variable_name, literal)])
    ELSE None

\* api_types.py 16-20: the exception raised, None if none
assert_in_literal(option, literal, variable_name) ==
    LET options == literal IN
    IF option \notin SeqToSet(options)
    THEN Some([type |-> "TypeError",
               msg |-> LiteralErrorMessage(option, variable_name, options)])
    ELSE None

\* one call of assert_in_literal(option, literal, variable_name)
AssertInLiteral ==
    /\ pc = "idle"
    /\ \E option \in OptionCandidates, literal \in Literals, variable_name \in VariableNames :
         LET err == assert_in_literal(option, literal, variable_name) IN
         /\ args' = [option |-> option, literal |-> literal, variable_name |-> variable_name]
         /\ raised' = err
         /\ returned' = IF err = None THEN Some(None) ELSE None
         /\ pc' = IF err = None THEN "done" ELSE "raised"
    /\ op' = "assert_in_literal"
    /\ UNCHANGED <<calls, warnings, batch_vars, backing_n, page_token, response, yield_i, yielded, caller_vars>>

(***************************************************************************)
(* api_process_marking, add_marking, remove_marking, compass.py 433-490.   *)
(***************************************************************************)
MarkingIds == {"marking-1", "marking-2"}

\* the values passed as path_operation_type
PatchCandidates == SeqToSet(PatchOperation) \cup {"add", "DELETE", ""}

\* a request whose patch is an ADD whatever was asked for
MarkingRequestAlwaysAdd(rid, marking_id, path_operation_type, user_bearer_token) ==
    [method |-> "POST",
     endpoint |-> <<"markings/", rid>>,
     headers |-> UserBearerHeaders(user_bearer_token),
     json |-> [markingPatches |-> << [markingId |-> marking_id, patchOperation |-> "ADD"] >>],
     error_handling |-> DefaultErrorHandling]

\* lines 452-460: the request of api_process_marking
MarkingRequest(rid, marking_id, path_operation_type, user_bearer_token) ==
    [method |-> "POST",
     endpoint |-> <<"markings/", rid>>,
     headers |-> UserBearerHeaders(user_bearer_token),
     json |-> [markingPatches |->
                  << [markingId |-> marking_id, patchOperation |-> path_operation_type] >>],
     error_handling |-> DefaultErrorHandling]

\* api_process_marking, lines 450-460: the check, then the one request
ProcessMarking(rid, marking_id, path_operation_type, user_bearer_token, answer) ==
    LET err == assert_in_literal(path_operation_type, PatchOperation, "path_operation_type") IN
    IF err # None
    THEN /\ raised' = err
         /\ calls' = << >>
         /\ returned' = None
         /\ response' = None
         /\ pc' = "raised"
    ELSE Dispatched(MarkingRequest(rid, marking_id, path_operation_type, user_bearer_token),
                    answer)

\* one call of api_process_marking
ApiProcessMarking ==
    /\ pc = "idle"
    /\ \E rid \in Rids, marking_id \in MarkingIds, path_operation_type \in PatchCandidates,
          user_bearer_token \in BearerTokens, answer \in ServerAnswers :
         /\ args' = [rid |-> rid, marking_id |-> marking_id,
                     path_operation_type |-> path_operation_type,
                     user_bearer_token |-> user_bearer_token]
         /\ ProcessMarking(rid, marking_id, path_operation_type, user_bearer_token, answer)
    /\ op' = "api_process_marking"
    /\ UNCHANGED <<warnings, batch_vars, backing_n, page_token, yield_i, yielded, caller_vars>>

\* one call of add_marking, line 475
AddMarking ==
    /\ pc = "idle"
    /\ \E rid \in Rids, marking_id \in MarkingIds,
          user_bearer_token \in BearerTokens, answer \in ServerAnswers :
         /\ args' = [rid |-> rid, marking_id |-> marking_id,
                     user_bearer_token |-> user_bearer_token]
         /\ ProcessMarking(rid, marking_id, "ADD", user_bearer_token, answer)
    /\ op' = "add_marking"
    /\ UNCHANGED <<warnings, batch_vars, backing_n, page_token, yield_i, yielded, caller_vars>>

\* one call of remove_marking, line 490
RemoveMarking ==
    /\ pc = "idle"
    /\ \E rid \in Rids, marking_id \in MarkingIds,
          user_bearer_token \in BearerTokens, answer \in ServerAnswers :
         /\ args' = [rid |-> rid, marking_id |-> marking_id,
                     user_bearer_token |-> user_bearer_token]
         /\ ProcessMarking(rid, marking_id, "REMOVE", user_bearer_token, answer)
    /\ op' = "remove_marking"
    /\ UNCHANGED <<warnings, batch_vars, backing_n, page_token, yield_i, yielded, caller_vars>>

(***************************************************************************)
(* api_delete_permanently, api_add_imports, api_remove_imports.            *)
(***************************************************************************)
DeleteOptions == {"DO_NOT_REQUIRE_TRASHED", "DO_NOT_TRACK_PERMANENTLY_DELETED_RIDS"}

\* lines 224-232; an empty delete_options set is sent as None
DeletePermanentlyRequest(rids, delete_options, user_bearer_token) ==
    [method |-> "POST",
     endpoint |-> <<"trash/delete">>,
     headers |-> UserBearerHeaders(user_bearer_token),
     params |-> [deleteOptions |->
                    IF delete_options # None /\ Value(delete_options) # {}
                    THEN Some(ListOfSmall(Value(delete_options))) ELSE None],
     json |-> rids,
     error_handling |-> DefaultErrorHandling]

\* one call of api_delete_permanently
ApiDeletePermanently ==
    /\ pc = "idle"
    /\ \E rids \in SUBSET Rids, user_bearer_token \in BearerTokens,
          delete_options \in {None, Some({})} \cup {Some({o}) : o \in DeleteOptions},
          answer \in ServerAnswers :
         /\ args' = [rids |-> rids, user_bearer_token |-> user_bearer_token]
         /\ Dispatched(DeletePermanentlyRequest(rids, delete_options, user_bearer_token), answer)
    /\ op' = "api_delete_permanently"
    /\ UNCHANGED <<warnings, batch_vars, backing_n, page_token, yield_i, yielded, caller_vars>>

\* lines 506-515; the body's list is written as the set of its entries
AddImportsRequest(project_rid, rids, user_bearer_token) ==
    [method |-> "POST",
     endpoint |-> <<"projects/imports/", project_rid, "/import">>,
     headers |-> UserBearerHeaders(user_bearer_token),
     json |-> [requests |-> {[resourceRid |-> rid] : rid \in rids}],
     error_handling |-> DefaultErrorHandling]

\* one call of api_add_imports
ApiAddImports ==
    /\ pc = "idle"
    /\ \E project_rid \in Rids, rids \in SUBSET Rids, user_bearer_token \in BearerTokens,
          answer \in ServerAnswers :
         /\ args' = [project_rid |-> project_rid, rids |-> rids,
                     user_bearer_token |-> user_bearer_token]
         /\ Dispatched(AddImportsRequest(project_rid, rids, user_bearer_token), answer)
    /\ op' = "api_add_imports"
    /\ UNCHANGED <<warnings, batch_vars, backing_n, page_token, yield_i, yielded, caller_vars>>

\* lines 531-540; the body holds the set rids itself
RemoveImportsRequest(project_rid, rids, user_bearer_token) ==
    [method |-> "DELETE",
     endpoint |-> <<"projects/imports/", project_rid, "/import">>,
     headers |-> UserBearerHeaders(user_bearer_token),
     json |-> [resourceRid |-> rids],
     error_handling |-> DefaultErrorHandling]

\* one call of api_remove_imports
ApiRemoveImports ==
    /\ pc = "idle"
    /\ \E project_rid \in Rids, rids \in SUBSET Rids, user_bearer_token \in BearerTokens,
          answer \in ServerAnswers :
         /\ args' = [project_rid |-> project_rid, rids |-> rids,
                     user_bearer_token |-> user_bearer_token]
         /\ Dispatched(RemoveImportsRequest(project_rid, rids, user_bearer_token), answer)
    /\ op' = "api_remove_imports"
    /\ UNCHANGED <<warnings, batch_vars, backing_n, page_token, yield_i, yielded, caller_vars>>

ApiNext ==
    \/ ApiSearchProjects
    \/ ApiAddToTrash
    \/ ApiRestore
    \/ GetDecoration
    \/ ApiGetResource
    \/ ApiGetResourceByPath
    \/ ApiCheckName
    \/ ApiGetChildren
    \/ ApiGetResources
    \/ AssertInLiteral
    \/ ApiProcessMarking
    \/ AddMarking
    \/ RemoveMarking
    \/ ApiDeletePermanently
    \/ ApiAddImports
    \/ ApiRemoveImports

SpecApi == Init /\ [][ApiNext]_vars

(***************************************************************************)
(* The remote listing service: a fixed collection <<1, ..., n>> served in  *)
(* pages of `size` elements starting at a 0-based offset; nextPageToken is *)
(* the decimal offset of the next page and null after the last page.       *)
(***************************************************************************)
ServerPage(n, size, offset) ==
    [values |-> IF offset >= n THEN << >>
                ELSE [i \in 1..(Min(offset + size, n) - offset) |-> offset + i],
     nextPageToken |-> IF offset + size < n THEN Some(IntToStr(offset + size)) ELSE None]

\* the offset a request's pageToken stands for
TokenOffset(token) == IF token = None THEN 0 ELSE DecimalValue(Value(token))

(***************************************************************************)
(* get_child_objects_of_folder, compass.py 360-404.                        *)
(***************************************************************************)
\* largest folder (number of children)
MaxChildren == 9
\* largest `limit` (items per page) passed for a folder listing
MaxLimit == 4

\* the generator is created; its body has not started
GetChildObjectsCall ==
    /\ pc = "idle"
    /\ \E n \in 0..MaxChildren, limit \in 1..MaxLimit :
         /\ backing_n' = n
         /\ args' = [limit |-> limit]
    /\ op' = "get_child_objects_of_folder"
    /\ pc' = "request"
    /\ page_token' = None
    /\ UNCHANGED <<calls, returned, raised, warnings, batch_vars, response, yield_i, yielded, caller_vars>>

\* a loop that also fetches the page after the one it is about to yield
ChildrenRequestPrefetch ==
    /\ op = "get_child_objects_of_folder" /\ pc = "request"
    /\ LET page == ServerPage(backing_n, args.limit, TokenOffset(page_token)) IN
       /\ calls' = calls \o << [endpoint |-> "folders/children",
                                 limit |-> args.limit, pageToken |-> page_token],
                                [endpoint |-> "folders/children",
                                 limit |-> args.limit, pageToken |-> page.nextPageToken] >>
       /\ response' = Some(page)
    /\ yield_i' = 1
    /\ pc' = "yield"
    /\ UNCHANGED <<op, returned, raised, warnings, batch_vars, args, backing_n, page_token, yielded, caller_vars>>

\* lines 391-401: api_get_children(..., page_token=page_token).json()
ChildrenRequest ==
    /\ op = "get_child_objects_of_folder" /\ pc = "request"
    /\ calls' = Append(calls, [endpoint |-> "folders/children",
                               limit |-> args.limit, pageToken |-> page_token])
    /\ response' = Some(ServerPage(backing_n, args.limit, TokenOffset(page_token)))
    /\ yield_i' = 1
    /\ pc' = "yield"
    /\ UNCHANGED <<op, returned, raised, warnings, batch_vars, args, backing_n, page_token, yielded, caller_vars>>

\* line 402: yield from response_as_json["values"], one element
ChildrenYield ==
    /\ op = "get_child_objects_of_folder" /\ pc = "yield"
    /\ yield_i <= Len(Value(response).values)
    /\ yielded' = Append(yielded, Value(response).values[yield_i])
    /\ yield_i' = yield_i + 1
    /\ UNCHANGED <<common_vars, batch_vars, args, backing_n, page_token, response, caller_vars>>

\* line 403: (page_token := response_as_json["nextPageToken"]) is None
ChildrenLoopEnds(resp) == resp.nextPageToken = None

\* a loop that tests the response's token but keeps its own page_token
ChildrenAdvanceStaleToken ==
    /\ op = "get_child_objects_of_folder" /\ pc = "yield"
    /\ yield_i > Len(Value(response).values)
    /\ pc' = IF ChildrenLoopEnds(Value(response)) THEN "done" ELSE "request"
    /\ UNCHANGED <<op, calls, returned, raised, warnings, batch_vars, page_vars, caller_vars>>

\* lines 403-404: the page is exhausted; take the next token, break on None
ChildrenAdvance ==
    /\ op = "get_child_objects_of_folder" /\ pc = "yield"
    /\ yield_i > Len(Value(response).values)
    /\ page_token' = Value(response).nextPageToken
    /\ pc' = IF ChildrenLoopEnds(Value(response)) THEN "done" ELSE "request"
    /\ UNCHANGED <<op, calls, returned, raised, warnings, batch_vars, args, backing_n, response, yield_i, yielded, caller_vars>>

FolderNext ==
    \/ GetChildObjectsCall
    \/ ChildrenRequest
    \/ ChildrenYield
    \/ ChildrenAdvance

SpecFolder == Init /\ [][FolderNext]_vars

(***************************************************************************)
(* search_projects, compass.py 796-844.                                    *)
(***************************************************************************)
\* collection sizes are taken within SizeSpread of 0, of the maximum offset
\* and of twice the maximum offset
SizeSpread == 2

CollectionSizes ==
    {n \in 0..(2 * MAXIMUM_PROJECTS_SEARCH_OFFSET + SizeSpread) :
        \/ n <= SizeSpread
        \/ (n >= MAXIMUM_PROJECTS_SEARCH_OFFSET - SizeSpread
              /\ n <= MAXIMUM_PROJECTS_SEARCH_OFFSET + SizeSpread)
        \/ n >= 2 * MAXIMUM_PROJECTS_SEARCH_OFFSET - SizeSpread}

\* the generator is created; its body has not started
SearchProjectsCall ==
    /\ pc = "idle"
    /\ \E n \in CollectionSizes, page_size \in PageSizeInputs :
         /\ backing_n' = n
         /\ args' = [page_size |-> page_size]
    /\ op' = "search_projects"
    /\ pc' = "request"
    /\ page_token' = None
    /\ UNCHANGED <<calls, returned, raised, warnings, batch_vars, response, yield_i, yielded, caller_vars>>

\* a service whose nextPageToken is any string: the first page has one value
\* and any token, a page asked for with a token is the last one
OpaquePages(token) ==
    IF token = None
    THEN {[values |-> << 1 >>, nextPageToken |-> t] : t \in TokenInputs}
    ELSE {[values |-> << 2 >>, nextPageToken |-> None]}

\* the pages the service may answer a request with
SearchResponses(mode, n, request) ==
    IF mode = "opaque" THEN OpaquePages(request.pageToken)
    ELSE {ServerPage(n, request.pageSize, TokenOffset(request.pageToken))}

\* the generator is created against a service with opaque tokens
SearchProjectsCallOpaque ==
    /\ pc = "idle"
    /\ args' = [page_size |-> DEFAULT_PROJECTS_PAGE_SIZE]
    /\ backing_n' = 2
    /\ server_mode' = "opaque"
    /\ op' = "search_projects"
    /\ pc' = "request"
    /\ page_token' = None
    /\ UNCHANGED <<calls, returned, raised, warnings, resource_ids, batch_i, result, response, yield_i, yielded, caller_vars>>

\* lines 828-839: api_search_projects(..., page_size, page_token).json(); a
\* ValueError of the validation leaves the generator
SearchRequest ==
    /\ op = "search_projects" /\ pc = "request"
    /\ LET run == ApiSearchProjectsRun(args.page_size, page_token) IN
       /\ warnings' = warnings \o run.warnings
       /\ calls' = calls \o run.requests
       /\ IF run.raised # None
          THEN /\ raised' = run.raised
               /\ pc' = "raised"
               /\ UNCHANGED <<response, yield_i>>
          ELSE /\ \E page \in SearchResponses(server_mode, backing_n, run.requests[1]) :
                    response' = Some(page)
               /\ yield_i' = 1
               /\ pc' = "yield"
               /\ UNCHANGED raised
    /\ UNCHANGED <<op, returned, batch_vars, args, backing_n, page_token, yielded, caller_vars>>

\* line 840: yield from response_as_json["values"], one element
SearchYield ==
    /\ op = "search_projects" /\ pc = "yield"
    /\ yield_i <= Len(Value(response).values)
    /\ yielded' = Append(yielded, Value(response).values[yield_i])
    /\ yield_i' = yield_i + 1
    /\ UNCHANGED <<common_vars, batch_vars, args, backing_n, page_token, response, caller_vars>>

\* a loop that only ends on a null token
SearchLoopEndsOnNullOnly(token) == token = None

\* a loop that already ends at the bound
SearchLoopEndsAtBound(token) ==
    token = None \/ PyInt(Value(token)) >= MAXIMUM_PROJECTS_PAGE_SIZE

\* line 843: page_token is None or int(page_token) > MAXIMUM_PROJECTS_PAGE_SIZE
\* (evaluated only for a token int() can read)
SearchLoopEnds(token) ==
    token = None \/ PyInt(Value(token)) > MAXIMUM_PROJECTS_PAGE_SIZE

\* lines 842-844: the page is exhausted; take the next token and test it.
\* int() raises ValueError for a token that is not a number.
SearchAdvance ==
    /\ op = "search_projects" /\ pc = "yield"
    /\ yield_i > Len(Value(response).values)
    /\ LET token == Value(response).nextPageToken IN
       /\ page_token' = token
       /\ IF token # None /\ ~PyIntParses(Value(token))
          THEN /\ raised' = Some([type |-> "ValueError", msg |-> "invalid literal for int()"])
               /\ pc' = "raised"
          ELSE /\ pc' = IF SearchLoopEnds(token) THEN "done" ELSE "request"
               /\ UNCHANGED raised
    /\ UNCHANGED <<op, calls, returned, warnings, batch_vars, args, backing_n, response, yield_i, yielded, caller_vars>>

SearchNext ==
    \/ SearchProjectsCall
    \/ SearchRequest
    \/ SearchYield
    \/ SearchAdvance

SpecSearch == Init /\ [][SearchNext]_vars

\* both generators, and search_projects against either service
CursorNext ==
    \/ FolderNext
    \/ SearchNext
    \/ SearchProjectsCallOpaque

SpecCursor == Init /\ [][CursorNext]_vars

(***************************************************************************)
(* The dispatcher raising inside the loops.  No loop of compass.py has a   *)
(* try statement, so what api_request raises leaves get_paths (line 310),  *)
(* get_projects_by_rids (656), get_child_objects_of_folder (391) and       *)
(* search_projects (828) at the call.  The failure the dispatcher raised   *)
(* is kept in `response` as [error |-> e].                                 *)
(***************************************************************************)
\* what the dispatcher raises for a request it could not complete
DispatcherFailures ==
    {[type |-> "FoundryAPIError", status_code |-> 500],
     [type |-> "ConnectionError", status_code |-> 0]}

\* the call is left with the exception e, raised by the dispatcher
LeftBy(e) ==
    /\ response' = Some([error |-> e])
    /\ raised' = Some(e)
    /\ pc' = "raised"

\* a loop that swallows the failure and ends as if the listing were over
ChildrenRequestFailsSuppressed ==
    /\ op = "get_child_objects_of_folder" /\ pc = "request"
    /\ calls' = Append(calls, [endpoint |-> "folders/children",
                               limit |-> args.limit, pageToken |-> page_token])
    /\ \E e \in DispatcherFailures : response' = Some([error |-> e])
    /\ pc' = "done"
    /\ UNCHANGED <<op, returned, raised, warnings, batch_vars, args, backing_n, page_token, yield_i, yielded, caller_vars>>

\* line 310: api_get_paths(batch) raises; result is not returned
GetPathsBatchFails ==
    /\ op = "get_paths" /\ pc = "loop"
    /\ batch_i <= Len(Batches)
    /\ calls' = Append(calls, Batches[batch_i])
    /\ \E e \in DispatcherFailures : LeftBy(e)
    /\ UNCHANGED <<op, returned, warnings, batch_vars, args, backing_n, page_token, yield_i, yielded, caller_vars>>

\* line 656: api_get_projects_by_rids(batch) raises
GetProjectsBatchFails ==
    /\ op = "get_projects_by_rids" /\ pc = "loop"
    /\ batch_i <= Len(Batches)
    /\ calls' = Append(calls, Batches[batch_i])
    /\ \E e \in DispatcherFailures : LeftBy(e)
    /\ UNCHANGED <<op, returned, warnings, batch_vars, args, backing_n, page_token, yield_i, yielded, caller_vars>>

\* lines 391-401: api_get_children raises inside the generator
ChildrenRequestFails ==
    /\ op = "get_child_objects_of_folder" /\ pc = "request"
    /\ calls' = Append(calls, [endpoint |-> "folders/children",
                               limit |-> args.limit, pageToken |-> page_token])
    /\ \E e \in DispatcherFailures : LeftBy(e)
    /\ UNCHANGED <<op, returned, warnings, batch_vars, args, backing_n, page_token, yield_i, yielded, caller_vars>>

\* lines 828-839: the request of api_search_projects was sent and the
\* dispatcher raises
SearchRequestFails ==
    /\ op = "search_projects" /\ pc = "request"
    /\ LET run == ApiSearchProjectsRun(args.page_size, page_token) IN
       /\ run.raised = None
       /\ warnings' = warnings \o run.warnings
       /\ calls' = calls \o run.requests
    /\ \E e \in DispatcherFailures : LeftBy(e)
    /\ UNCHANGED <<op, returned, batch_vars, args, backing_n, page_token, yield_i, yielded, caller_vars>>

\* every operation, against a dispatcher that may raise on any request
FailureNext ==
    \/ ApiNext
    \/ BatchNext
    \/ FolderNext
    \/ SearchNext
    \/ GetPathsBatchFails
    \/ GetProjectsBatchFails
    \/ ChildrenRequestFails
    \/ SearchRequestFails

SpecFailure == Init /\ [][FailureNext]_vars

(***************************************************************************)
(* The caller of a generator.  The body of get_child_objects_of_folder and *)
(* of search_projects runs only inside a next() of the caller and is       *)
(* suspended at `yield from` (lines 402, 840) once an element is handed    *)
(* over; `asked` counts the next() calls.                                  *)
(***************************************************************************)
\* the caller is inside next(), waiting for an element
Resumed == asked > Len(yielded)

\* the caller asks the generator for one more element
CallerNext ==
    /\ op \in {"get_child_objects_of_folder", "search_projects"}
    /\ pc \in {"request", "yield"}
    /\ asked = Len(yielded)
    /\ asked' = asked + 1
    /\ UNCHANGED <<common_vars, batch_vars, page_vars, other>>

LazyChildrenRequest == Resumed /\ ChildrenRequest
LazyChildrenYield == Resumed /\ ChildrenYield
LazyChildrenAdvance == Resumed /\ ChildrenAdvance
LazySearchRequest == Resumed /\ SearchRequest
LazySearchYield == Resumed /\ SearchYield
LazySearchAdvance == Resumed /\ SearchAdvance

\* both generators driven by a caller that may stop asking at any point
LazyNext ==
    \/ GetChildObjectsCall
    \/ SearchProjectsCall
    \/ CallerNext
    \/ LazyChildrenRequest
    \/ LazyChildrenYield
    \/ LazyChildrenAdvance
    \/ LazySearchRequest
    \/ LazySearchYield
    \/ LazySearchAdvance

SpecLazy == Init /\ [][LazyNext]_vars

(***************************************************************************)
(* Two calls on one client.  CompassClient assigns no attribute of self in *)
(* any method: page_token, response_as_json, batches and result are locals *)
(* of the call's frame.  The variables above are the locals of the call    *)
(* that is running; `other` holds those of a second call that is parked,   *)
(* and the two change places at any point.                                 *)
(***************************************************************************)
\* largest collection and largest page of the calls that are interleaved
MaxSharedItems == 3
MaxSharedPage == 2

\* the locals of the running call
Frame ==
    [op |-> op, pc |-> pc, calls |-> calls, returned |-> returned,
     raised |-> raised, warnings |-> warnings, resource_ids |-> resource_ids,
     server_mode |-> server_mode, batch_i |-> batch_i, result |-> result,
     args |-> args, backing_n |-> backing_n, page_token |-> page_token,
     response |-> response, yield_i |-> yield_i, yielded |-> yielded]

\* a client that keeps the page token in an attribute of its own: the token
\* does not change places with the rest
SwitchSharedPageToken ==
    /\ other' = Frame
    /\ op' = other.op /\ pc' = other.pc /\ calls' = other.calls
    /\ returned' = other.returned /\ raised' = other.raised
    /\ warnings' = other.warnings /\ resource_ids' = other.resource_ids
    /\ server_mode' = other.server_mode /\ batch_i' = other.batch_i
    /\ result' = other.result /\ args' = other.args
    /\ backing_n' = other.backing_n
    /\ response' = other.response /\ yield_i' = other.yield_i
    /\ yielded' = other.yielded
    /\ UNCHANGED <<page_token, asked>>

\* the running call is parked and the parked one runs on
Switch ==
    /\ other' = Frame
    /\ op' = other.op /\ pc' = other.pc /\ calls' = other.calls
    /\ returned' = other.returned /\ raised' = other.raised
    /\ warnings' = other.warnings /\ resource_ids' = other.resource_ids
    /\ server_mode' = other.server_mode /\ batch_i' = other.batch_i
    /\ result' = other.result /\ args' = other.args
    /\ backing_n' = other.backing_n /\ page_token' = other.page_token
    /\ response' = other.response /\ yield_i' = other.yield_i
    /\ yielded' = other.yielded
    /\ UNCHANGED asked

\* the calls that are interleaved, with small arguments
SharedChildrenCall ==
    /\ GetChildObjectsCall
    /\ backing_n' <= MaxSharedItems
    /\ args'.limit <= MaxSharedPage

SharedSearchCall ==
    /\ SearchProjectsCall
    /\ backing_n' <= MaxSharedItems
    /\ args'.page_size >= MINIMUM_PROJECTS_PAGE_SIZE
    /\ args'.page_size <= MaxSharedPage

SharedPathsCall ==
    /\ GetPathsCall
    /\ Len(resource_ids') >= GET_PATHS_BATCH_SIZE
    /\ Len(resource_ids') <= GET_PATHS_BATCH_SIZE + 1
    /\ server_mode' = "per_call"

SharedProjectsCall ==
    /\ GetProjectsCall
    /\ Len(resource_ids') <= MaxSharedPage
    /\ server_mode' = "per_call"

SharedNext ==
    \/ SharedChildrenCall
    \/ SharedSearchCall
    \/ SharedPathsCall
    \/ SharedProjectsCall
    \/ ChildrenRequest
    \/ ChildrenYield
    \/ ChildrenAdvance
    \/ SearchRequest
    \/ SearchYield
    \/ SearchAdvance
    \/ GetPathsBatch
    \/ GetPathsReturn
    \/ GetProjectsBatch
    \/ GetProjectsReturn
    \/ Switch

SpecShared == Init /\ [][SharedNext]_vars

(***************************************************************************)
(* Properties of the batch methods.                                        *)
(***************************************************************************)
RECURSIVE Concat(_)
Concat(ss) == IF ss = << >> THEN << >> ELSE Head(ss) \o Concat(Tail(ss))

CeilDiv(n, d) == (n + d - 1) \div d

\* the indices of the calls whose request body holds identifier k
CallsWith(k) == {c \in DOMAIN calls : \E i \in DOMAIN calls[c] : calls[c][i] = k}

SetMax(S) == CHOOSE x \in S : \A y \in S : y <= x
SetMin(S) == CHOOSE x \in S : \A y \in S : x <= y

\* C1: batch-merge completeness.  When get_paths or get_projects_by_rids
\* returns, the key set of the returned mapping equals the set of the input
\* identifiers (none missing, none extra), for every input length.
C1_BatchMergeComplete ==
    (pc = "done" /\ op \in {"get_paths", "get_projects_by_rids"})
        => DOMAIN Value(returned) = SeqToSet(resource_ids)

\* C1 witness: both methods have returned a complete mapping for a list
\* longer than one batch; here get_projects_by_rids.
C1_Witness ==
    /\ pc = "done" /\ op = "get_projects_by_rids"
    /\ Len(resource_ids) > GET_PATHS_BATCH_SIZE
    /\ Len(calls) > 1
    /\ DOMAIN Value(returned) = SeqToSet(resource_ids)

\* C2: get_paths sends consecutive, non-overlapping slices of at most 100
\* identifiers that together are the input list (every position in exactly
\* one call): one call when n < 100 (also n = 0), ceil(n/100) calls when
\* n >= 100, and 3 calls and 250 entries for 250 distinct identifiers.
C2_GetPathsChunks ==
    (pc = "done" /\ op = "get_paths") =>
        LET n == Len(resource_ids) IN
        /\ Concat(calls) = resource_ids
        /\ \A c \in DOMAIN calls : Len(calls[c]) <= 100
        /\ n < 100 => Len(calls) = 1
        /\ n >= 100 => Len(calls) = CeilDiv(n, 100)
        /\ (n = 250 /\ Cardinality(SeqToSet(resource_ids)) = 250)
               => (Len(calls) = 3 /\ Cardinality(DOMAIN Value(returned)) = 250)

\* C2 witness: 250 distinct identifiers resolved in 3 calls.
C2_Witness ==
    /\ pc = "done" /\ op = "get_paths"
    /\ Len(resource_ids) = 250
    /\ Cardinality(SeqToSet(resource_ids)) = 250
    /\ Len(calls) = 3
    /\ Cardinality(DOMAIN Value(returned)) = 250

\* C3: get_projects_by_rids sends chunks of at most GET_PROJECTS_BATCH_SIZE
\* identifiers that do not overlap and together are the input list.
C3_ProjectChunks ==
    (pc = "done" /\ op = "get_projects_by_rids") =>
        /\ \A c \in DOMAIN calls : Len(calls[c]) <= GET_PROJECTS_BATCH_SIZE
        /\ Concat(calls) = resource_ids

\* C4 as claimed: a value merged for a key by an earlier chunk is never
\* replaced by a differing value of a later chunk (the merge has no error
\* path, so "not silently" means "not at all").
C4_NoOverwrite ==
    [][\A k \in DOMAIN result : k \in DOMAIN result' /\ result'[k] = result[k]]_vars

\* C4 amended: the merge is last-write-wins.  In the mapping get_paths or
\* get_projects_by_rids returns, each key holds the value of the latest call
\* whose request carried that key (the per_call service answers call c with
\* the value c), whatever earlier calls returned for it.
C4_LastWriteWins ==
    (pc = "done" /\ op \in {"get_paths", "get_projects_by_rids"}) =>
        \A k \in DOMAIN Value(returned) :
            /\ CallsWith(k) # {}
            /\ Value(returned)[k] = IF server_mode = "per_call" THEN SetMax(CallsWith(k)) ELSE 0

\* C4 witness: get_paths has returned a mapping in which a key sent in two
\* chunks holds the second chunk's value, not the first's.
C4_Witness ==
    /\ pc = "done" /\ op = "get_paths" /\ server_mode = "per_call"
    /\ \E k \in DOMAIN Value(returned) :
          /\ Cardinality(CallsWith(k)) >= 2
          /\ Value(returned)[k] = SetMax(CallsWith(k))
          /\ Value(returned)[k] # SetMin(CallsWith(k))


(***************************************************************************)
(* Properties of api_search_projects and api_add_to_trash.                 *)
(***************************************************************************)
SearchCallOver == op = "api_search_projects" /\ pc \in {"done", "raised"}

\* a token the service accepts: absent, or decimal digits with value 0..500
TokenInRange(token) ==
    \/ token = None
    \/ /\ IsDecimal(Value(token))
       /\ DecimalValue(Value(token)) >= 0
       /\ DecimalValue(Value(token)) <= 500

\* C7: page-size clamping.  The pageSize of the request body is 1 for
\* page_size < 1, 500 for page_size > 500 and page_size itself in between;
\* an out-of-range page_size gives one warning, an in-range one none, and
\* with an acceptable page_token nothing is raised and the request is sent.
C7_PageSizeClamped ==
    SearchCallOver =>
        LET p == args.page_size IN
        /\ \A c \in DOMAIN calls :
              calls[c].pageSize = (IF p < 1 THEN 1 ELSE IF p > 500 THEN 500 ELSE p)
        /\ Len(warnings) = (IF p < 1 \/ p > 500 THEN 1 ELSE 0)
        /\ TokenInRange(args.page_token) =>
              (raised = None /\ Len(calls) = 1 /\ returned # None)

\* C7 witness: page_size 501 was sent as 500, with a warning and no error.
C7_Witness ==
    /\ SearchCallOver
    /\ args.page_size = 501
    /\ Len(calls) = 1 /\ calls[1].pageSize = 500
    /\ Len(warnings) = 1
    /\ raised = None

\* C8: page-token validation.  A non-null page_token that is not a string of
\* decimal digits (the empty string, a signed number) raises ValueError, a
\* digit string with value above 500 raises ValueError, and a digit string
\* with value 0..500 is accepted and sent as pageToken exactly as given.
C8_PageTokenValidated ==
    (SearchCallOver /\ args.page_token # None) =>
        LET t == Value(args.page_token) IN
        IF ~IsDecimal(t) \/ DecimalValue(t) > 500
        THEN raised # None /\ Value(raised).type = "ValueError"
        ELSE /\ raised = None
             /\ Len(calls) = 1
             /\ calls[1].pageToken = Some(t)

\* C8 witness: the token "0500" was accepted and sent with its leading zero.
C8_Witness ==
    /\ SearchCallOver
    /\ args.page_token = Some(<<"0", "5", "0", "0">>)
    /\ raised = None
    /\ calls[1].pageToken = Some(<<"0", "5", "0", "0">>)

\* C9: validation precedes the network call.  Whenever api_search_projects
\* raises ValueError, no request was handed to the dispatcher in that call,
\* whatever the page_size.
C9_NoRequestOnValueError ==
    (SearchCallOver /\ raised # None /\ Value(raised).type = "ValueError")
        => calls = << >>

\* C9 witness: an out-of-range page_size (warned about) together with a
\* token above the maximum offset: ValueError and no request.
C9_Witness ==
    /\ SearchCallOver
    /\ args.page_size = 0
    /\ args.page_token = Some(<<"5", "0", "1">>)
    /\ Len(warnings) = 1
    /\ raised # None /\ Value(raised).type = "ValueError"
    /\ calls = << >>

\* C10: api_add_to_trash.  A response whose status is not 204 makes the call
\* raise instead of returning, and the error carries the set of identifiers
\* passed as rids; a 204 response is returned and nothing is raised.
C10_TrashAddRaises ==
    (op = "api_add_to_trash" /\ pc \in {"done", "raised"}) =>
        IF Value(response).status_code # 204
        THEN /\ pc = "raised" /\ returned = None /\ raised # None
             /\ "rids" \in DOMAIN Value(raised).kwargs
             /\ Value(raised).kwargs.rids = args.rids
        ELSE /\ pc = "done" /\ raised = None
             /\ returned = response

\* C10 witness: a 200 answer to a trash-add of two identifiers raised an
\* error carrying both.
C10_Witness ==
    /\ op = "api_add_to_trash" /\ pc = "raised"
    /\ Value(response).status_code = 200
    /\ args.rids = {1, 2}
    /\ Value(raised).kwargs.rids = {1, 2}


(***************************************************************************)
(* Properties of the cursor loops.                                         *)
(***************************************************************************)
\* the remote collection, in server order
Backing(n) == [i \in 1..n |-> i]

IsPrefix(a, b) == Len(a) <= Len(b) /\ SubSeq(b, 1, Len(a)) = a

Max(a, b) == IF a > b THEN a ELSE b

\* C5: pagination exactly-once for folder children.  For every collection
\* size and every page size >= 1, what get_child_objects_of_folder has
\* yielded is at every point a prefix of the collection in server order; when
\* the iteration ends it is the whole collection; the iteration is never
\* stuck before its end and issues no more requests than there are pages
\* (one for an empty collection), so a full iteration terminates.
C5_ChildrenExactlyOnce ==
    (op = "get_child_objects_of_folder") =>
        /\ IsPrefix(yielded, Backing(backing_n))
        /\ pc = "done" => yielded = Backing(backing_n)
        /\ Len(calls) <= Max(1, CeilDiv(backing_n, args.limit))
        /\ pc # "done" => ENABLED FolderNext
        /\ raised = None

\* C5 witness: 9 children in pages of 4 were yielded completely in 3 requests.
C5_Witness ==
    /\ op = "get_child_objects_of_folder" /\ pc = "done"
    /\ backing_n = 9 /\ args.limit = 4
    /\ yielded = Backing(9)
    /\ Len(calls) = 3

\* the page size the service slices by: the clamped page_size argument
SearchPageSize == ClampPageSize(args.page_size)

\* the number of elements before the first page offset above 500
SearchReach(size) == size * ((500 \div size) + 1)

\* C6 as claimed: for a collection of any size, a full iteration of
\* search_projects yields exactly the collection.
C6_SearchYieldsAll ==
    (op = "search_projects" /\ pc = "done") => yielded = Backing(backing_n)

\* C6 amended: search_projects yields a prefix of the collection in server
\* order, each element once, never raises, and ends having yielded the whole
\* collection when no page offset exceeds 500 (at most size * (500 div size
\* + 1) elements), and exactly the elements before the first page offset
\* above 500 otherwise.
C6_SearchYieldsUpToOffsetBound ==
    (op = "search_projects") =>
        /\ IsPrefix(yielded, Backing(backing_n))
        /\ raised = None
        /\ pc = "done" =>
              yielded = Backing(Min(backing_n, SearchReach(SearchPageSize)))
        /\ (pc = "done" /\ backing_n <= SearchReach(SearchPageSize)) =>
              yielded = Backing(backing_n)

\* C6 witness: 502 projects in pages of 2 were yielded completely, the last
\* request carrying the offset 500.
C6_Witness ==
    /\ op = "search_projects" /\ pc = "done"
    /\ backing_n = 502 /\ args.page_size = 2
    /\ yielded = Backing(502)
    /\ Len(calls) = 251
    /\ calls[251].pageToken = Some(<<"5", "0", "0">>)


\* C11: api_restore.  A response whose status is not 204 makes the call
\* raise, and the error carries context that includes the identifiers passed
\* as rids; a 204 response is returned.
C11_RestoreRaisesWithRids ==
    (op = "api_restore" /\ pc \in {"done", "raised"}) =>
        IF Value(response).status_code # 204
        THEN /\ pc = "raised" /\ returned = None /\ raised # None
             /\ "rids" \in DOMAIN Value(raised).kwargs
             /\ Value(raised).kwargs.rids = args.rids
        ELSE /\ pc = "done" /\ raised = None
             /\ returned = response


(***************************************************************************)
(* Properties of the decoration handling.                                  *)
(***************************************************************************)
\* the sequence q holds every element of S exactly once and nothing else
ListsExactly(q, S) ==
    /\ Len(q) = Cardinality(S)
    /\ SeqToSet(q) = S

\* C12: get_decoration.  None gives None under both shapes; "all" with the
\* list shape gives a list holding every element of ALL_RESOURCE_DECORATIONS
\* exactly once; an explicit set with the set shape gives that set unchanged.
C12_DecorationResolution ==
    (op = "get_decoration" /\ pc = "done") =>
        LET res == Value(returned) IN
        /\ args.decoration = None => res = None
        /\ (args.decoration = Some(AllSentinel) /\ args.conv) =>
              /\ res # None
              /\ Value(res).kind = "list"
              /\ ListsExactly(Value(res).items, ALL_RESOURCE_DECORATIONS)
              /\ Len(Value(res).items) = 27
        /\ (args.decoration # None /\ Value(args.decoration).kind = "set" /\ ~args.conv) =>
              res = args.decoration

\* C12 witness: "all" was resolved to a list of the 27 tags, in an iteration
\* order other than the written one.
C12_Witness ==
    /\ op = "get_decoration" /\ pc = "done"
    /\ args.decoration = Some(AllSentinel) /\ args.conv
    /\ Value(Value(returned)).kind = "list"
    /\ Len(Value(Value(returned)).items) = 27
    /\ Value(Value(returned)).items # ResourceDecoration

\* the operations that accept a decoration argument
DecorationOps ==
    {"api_get_resource", "api_get_resource_by_path", "api_get_children",
     "api_get_resources", "api_search_projects"}

\* the decoration argument of the call made
ArgDecoration ==
    IF op = "api_search_projects" THEN args.decorations ELSE args.decoration

\* the decoration value of a request: a query parameter, or a body entry for
\* api_search_projects
SentDecoration(request) ==
    IF op = "api_search_projects" THEN request.decorations
    ELSE request.params.decoration

\* a decoration-accepting operation has handed a request to the dispatcher
DecoratedCallOver ==
    /\ op \in DecorationOps
    /\ pc \in {"done", "raised"}
    /\ Len(calls) = 1

\* C13: decoration-set invariant.  The decoration values placed in the request
\* of a decoration-accepting operation are a subset of ALL_RESOURCE_DECORATIONS,
\* whatever decoration argument was passed.
C13_SentDecorationsInVocabulary ==
    DecoratedCallOver =>
        \A c \in DOMAIN calls :
            SentDecoration(calls[c]) # None =>
                LET d == Value(SentDecoration(calls[c])) IN
                (IF d.kind = "list" THEN SeqToSet(d.items) ELSE d.items)
                    \subseteq ALL_RESOURCE_DECORATIONS

\* C14: decoration in the request.  With decoration "all" the request's
\* decoration is a list, not a set, holding exactly the elements of
\* ALL_RESOURCE_DECORATIONS; with decoration unset it is None, not an empty list.
C14_DecorationInRequest ==
    DecoratedCallOver =>
        LET sent == SentDecoration(calls[1]) IN
        /\ ArgDecoration = Some(AllSentinel) =>
              /\ sent # None
              /\ Value(sent).kind = "list"
              /\ ListsExactly(Value(sent).items, ALL_RESOURCE_DECORATIONS)
        /\ ArgDecoration = None => sent = None

\* C14 witness: api_get_resources was called with decoration "all" and its one
\* request carries the 27 tags as a list.
C14_Witness ==
    /\ DecoratedCallOver
    /\ op = "api_get_resources"
    /\ args.decoration = Some(AllSentinel)
    /\ Value(calls[1].params.decoration).kind = "list"
    /\ Len(Value(calls[1].params.decoration).items) = 27


(***************************************************************************)
(* Properties of assert_in_literal and of the marking operations.          *)
(***************************************************************************)
\* the message holds the piece x
Contains(msg, x) == \E i \in DOMAIN msg : msg[i] = x

\* after its text the message lists the options, all of them, each once and
\* in their order: what is left of its end when the punctuation is taken out
ListsOptions(msg, options) ==
    /\ Len(msg) > 5
    /\ SelectSeq(SubSeq(msg, 6, Len(msg)),
                 LAMBDA x : x \notin {"(", ")", "'", ", ", ","}) = options

\* C15: assert_in_literal.  A value that is one of the literal's options never
\* raises; a value that is not raises TypeError, and the message holds the
\* value, the variable_name passed and every option of the literal.
C15_LiteralValidated ==
    (op = "assert_in_literal" /\ pc \in {"done", "raised"}) =>
        IF \E i \in DOMAIN args.literal : args.literal[i] = args.option
        THEN pc = "done" /\ raised = None
        ELSE /\ pc = "raised" /\ raised # None
             /\ Value(raised).type = "TypeError"
             /\ Contains(Value(raised).msg, args.option)
             /\ Contains(Value(raised).msg, args.variable_name)
             /\ ListsOptions(Value(raised).msg, args.literal)

\* C15 witness: "ALL", an option of another literal, was refused for
\* PatchOperation with a message naming it and both valid options.
C15_Witness ==
    /\ op = "assert_in_literal" /\ pc = "raised"
    /\ args.option = "ALL" /\ args.literal = PatchOperation
    /\ Value(raised).msg =
           <<"'", "ALL", "' is not a valid option for ", args.variable_name,
             ", valid options are ", "(", "'", "ADD", "'", ", ", "'", "REMOVE", "'", ")">>

\* a marking call is over
MarkingCallOver ==
    /\ op \in {"api_process_marking", "add_marking", "remove_marking"}
    /\ pc \in {"done", "raised"}

\* C16: marking mutation.  add_marking and remove_marking issue exactly one
\* POST to markings/{rid} whose body holds exactly one patch, with the marking
\* id given and patchOperation "ADD", respectively "REMOVE"; api_process_marking
\* with an operation other than ADD and REMOVE raises TypeError and sends
\* nothing.
C16_MarkingMutation ==
    MarkingCallOver =>
        /\ op \in {"add_marking", "remove_marking"} =>
              /\ Len(calls) = 1
              /\ calls[1].method = "POST"
              /\ calls[1].endpoint = <<"markings/", args.rid>>
              /\ Len(calls[1].json.markingPatches) = 1
              /\ calls[1].json.markingPatches[1].markingId = args.marking_id
              /\ calls[1].json.markingPatches[1].patchOperation =
                     (IF op = "add_marking" THEN "ADD" ELSE "REMOVE")
        /\ (op = "api_process_marking" /\ args.path_operation_type \notin {"ADD", "REMOVE"}) =>
              /\ pc = "raised"
              /\ Value(raised).type = "TypeError"
              /\ calls = << >>

\* C16 witness: remove_marking sent its one REMOVE patch and returned.
C16_Witness ==
    /\ op = "remove_marking" /\ pc = "done"
    /\ Len(calls) = 1
    /\ calls[1].json.markingPatches[1].patchOperation = "REMOVE"
    /\ calls[1].json.markingPatches[1].markingId = "marking-2"

(***************************************************************************)
(* Properties of the error mappings and of the User-Bearer-Token header.   *)
(***************************************************************************)
\* a call of `operation` that handed one request to the dispatcher is over
CallOver(operations) ==
    /\ op \in operations
    /\ pc \in {"done", "raised"}
    /\ Len(calls) = 1

\* C17: not-found mapping.  api_get_resource and api_get_resource_by_path hand
\* the dispatcher a mapping of status 204 to ResourceNotFoundError, and
\* api_check_name and api_get_children one of the error name Compass:NotFound
\* to FolderNotFoundError; a 204 answer to a lookup ends in
\* ResourceNotFoundError and a Compass:NotFound answer to a folder operation in
\* FolderNotFoundError, neither in the generic failure nor in a return.
C17_NotFoundMapping ==
    /\ CallOver({"api_get_resource", "api_get_resource_by_path"}) =>
          /\ <<204, "ResourceNotFoundError">> \in calls[1].error_handling.status_mapping
          /\ Value(response).status_code = 204 =>
                /\ pc = "raised" /\ returned = None
                /\ Value(raised).type = "ResourceNotFoundError"
    /\ CallOver({"api_check_name", "api_get_children"}) =>
          /\ <<"Compass:NotFound", "FolderNotFoundError">>
                 \in calls[1].error_handling.code_mapping
          /\ Value(response).error_name = Some("Compass:NotFound") =>
                /\ pc = "raised" /\ returned = None
                /\ Value(raised).type = "FolderNotFoundError"

\* C17 witness: a path lookup answered with 204 ended in ResourceNotFoundError.
C17_Witness ==
    /\ CallOver({"api_get_resource_by_path"})
    /\ Value(response).status_code = 204
    /\ pc = "raised"
    /\ Value(raised).type = "ResourceNotFoundError"

\* the operations that take a user_bearer_token
BearerOps ==
    {"api_add_to_trash", "api_restore", "api_delete_permanently",
     "api_process_marking", "add_marking", "remove_marking",
     "api_add_imports", "api_remove_imports"}

\* C18: User-Bearer-Token header.  The request of an operation that takes a
\* user_bearer_token carries the header User-Bearer-Token with the value
\* "Bearer <token>" exactly when the token is given and not empty; with None
\* or the empty string the request has no such header.
C18_UserBearerHeader ==
    CallOver(BearerOps) =>
        LET t == args.user_bearer_token
            h == calls[1].headers
        IN
        IF t # None /\ Value(t) # ""
        THEN /\ h # None
             /\ Value(h).name = "User-Bearer-Token"
             /\ Value(h).value = <<"Bearer ", Value(t)>>
        ELSE h = None

\* C18 witness: api_remove_imports with a token sent the header.
C18_Witness ==
    /\ CallOver({"api_remove_imports"})
    /\ args.user_bearer_token = Some("secret")
    /\ calls[1].headers # None
    /\ Value(calls[1].headers).value = <<"Bearer ", "secret">>

(***************************************************************************)
(* Properties of the cursor loops.                                         *)
(***************************************************************************)
\* the last elements yielded are the values of the page held
PageYielded ==
    LET v == Value(response).values IN
    /\ yield_i > Len(v)
    /\ Len(yielded) >= Len(v)
    /\ SubSeq(yielded, Len(yielded) - Len(v) + 1, Len(yielded)) = v

\* C19: cursor protocol of get_child_objects_of_folder and search_projects.
\* The first request carries no page token; each later request carries the
\* nextPageToken of the response before it, and is issued only after every
\* value of that response was yielded; a response with a null nextPageToken
\* ends the iteration, and nothing is requested after the end.
C19_CursorProtocol ==
    [][ /\ calls' # calls =>
              /\ Len(calls') = Len(calls) + 1
              /\ SubSeq(calls', 1, Len(calls)) = calls
              /\ LET request == calls'[Len(calls')] IN
                 IF calls = << >> THEN request.pageToken = None
                 ELSE /\ response # None
                      /\ Value(response).nextPageToken # None
                      /\ request.pageToken = Value(response).nextPageToken
                      /\ PageYielded
        /\ (pc = "yield" /\ pc' # "yield" /\ Value(response).nextPageToken = None) =>
              (pc' = "done" /\ PageYielded /\ calls' = calls)
        /\ pc = "done" => calls' = calls
      ]_vars

\* C19 witness: search_projects with pages of one element went through two
\* pages, the second asked for with the token of the first, and ended.
C19_Witness ==
    /\ op = "search_projects" /\ pc = "done"
    /\ Len(calls) = 2
    /\ calls[1].pageToken = None
    /\ calls[2].pageToken = Some(<<"1">>)
    /\ Value(response).nextPageToken = None
    /\ yielded = <<1, 2>>

SendableToken(token) ==
    \/ token = None
    \/ /\ IsDecimal(Value(token))
       /\ DecimalValue(Value(token)) >= 0
       /\ DecimalValue(Value(token)) <= 500

\* the iteration has stopped with a ValueError
EndedWithValueError ==
    /\ pc' = "raised"
    /\ raised' # None /\ Value(raised').type = "ValueError"
    /\ returned' = None

\* C24: search_projects never sends an out-of-range token.  Whatever strings
\* the service returns as nextPageToken, the first request carries no token and
\* every later one a string of decimal digits with value 0..500; a token above
\* 500 ends the iteration without an error, a token that is negative or not a
\* number ends it with ValueError, each time after the values of the page were
\* yielded and with no further request.
C24_NoOutOfRangeToken ==
    [][ op' = "search_projects" =>
        \* requests are only ever added, one at a time, and each one added
        \* carries a token that may be sent
        /\ calls' # calls =>
              LET request == calls'[Len(calls')] IN
              /\ calls' = Append(calls, request)
              /\ SendableToken(request.pageToken)
              /\ (request.pageToken = None) <=> (calls = << >>)
        \* the page is exhausted and its token is looked at (line 843)
        /\ (op = "search_projects" /\ pc = "yield" /\ pc' # "yield") =>
              LET t == Value(response).nextPageToken IN
              /\ PageYielded /\ yielded' = yielded /\ calls' = calls
              /\ (t # None /\ ~PyIntParses(Value(t))) => EndedWithValueError
              /\ (t # None /\ PyIntParses(Value(t)) /\ PyInt(Value(t)) > 500) =>
                    (pc' = "done" /\ raised' = None)
              /\ (t # None /\ PyIntParses(Value(t)) /\ PyInt(Value(t)) < 0) =>
                    (pc' = "request" /\ page_token' = t)
        \* a negative token is refused by the validation of the next call
        /\ (op = "search_projects" /\ pc = "request" /\ page_token # None
               /\ PyInt(Value(page_token)) < 0) =>
              /\ EndedWithValueError
              /\ PageYielded /\ yielded' = yielded /\ calls' = calls
      ]_vars

\* C24 witness: the service answered the first request with the token "-1";
\* its one value was yielded and the iteration ended with ValueError after a
\* single request.
C24_Witness ==
    /\ op = "search_projects" /\ pc = "raised"
    /\ Value(response).nextPageToken = Some(<<"-", "1">>)
    /\ page_token = Some(<<"-", "1">>)
    /\ Value(raised).type = "ValueError"
    /\ Len(calls) = 1
    /\ yielded = << 1 >>

(***************************************************************************)
(* Properties of a failing dispatcher.                                     *)
(***************************************************************************)
\* the single-request methods whose only exception is the dispatcher's
DispatchingOps ==
    {"api_get_resource", "api_get_resource_by_path", "api_check_name",
     "api_get_children", "api_get_resources", "add_marking", "remove_marking",
     "api_delete_permanently", "api_add_imports", "api_remove_imports"}

LoopOps ==
    {"get_paths", "get_projects_by_rids", "get_child_objects_of_folder",
     "search_projects"}

\* in this step the dispatcher raised inside a loop
LoopDispatchFailed ==
    /\ op \in LoopOps
    /\ response' # response
    /\ response' # None
    /\ "error" \in DOMAIN Value(response')

\* C21: no local recovery, retry or suppression.  When the dispatcher raises
\* on a chunk of get_paths / get_projects_by_rids or a page of
\* get_child_objects_of_folder / search_projects, the call ends with that same
\* failure, the request was issued once, nothing read so far is changed and no
\* mapping is returned; when it raises in a single-request method, that
\* failure is what the caller gets after the one request; and a call that
\* ended with an exception issues no further request.
C21_FailurePropagates ==
    [][ /\ LoopDispatchFailed =>
              /\ pc' = "raised"
              /\ raised' = Some(Value(response').error)
              /\ returned' = None
              /\ Len(calls') = Len(calls) + 1
              /\ SubSeq(calls', 1, Len(calls)) = calls
              /\ result' = result /\ yielded' = yielded
        /\ (op' \in DispatchingOps /\ pc' = "raised") =>
              /\ Len(calls') = 1
              /\ returned' = None
              /\ raised' = ApiRequest(calls'[1], Value(response')).raised
              /\ Value(raised').response = Value(response')
        /\ pc = "raised" => (calls' = calls /\ pc' = "raised" /\ returned' = None)
      ]_vars

\* C21 witness: the third request of get_paths failed; three requests were
\* issued, the two chunks merged so far were not returned.
C21_Witness ==
    /\ op = "get_paths" /\ pc = "raised"
    /\ Len(calls) = 3
    /\ Len(Batches) = 3
    /\ DOMAIN result # {}
    /\ returned = None
    /\ raised = Some([type |-> "ConnectionError", status_code |-> 0])

(***************************************************************************)
(* Properties of the generators under a caller that asks element by        *)
(* element.                                                                *)
(***************************************************************************)
\* the number of elements of a full page
LazyPageSize ==
    IF op = "get_child_objects_of_folder" THEN args.limit ELSE SearchPageSize

\* what holds of a generator at every point
LazyBound ==
    op \in {"get_child_objects_of_folder", "search_projects"} =>
        /\ asked = 0 => calls = << >>
        /\ Len(yielded) <= asked /\ asked <= Len(yielded) + 1
        /\ Len(calls) <= 1 + (Len(yielded) \div LazyPageSize)
        /\ asked >= 1 => Len(calls) <= CeilDiv(asked, LazyPageSize)

\* C23: lazy pagination.  Neither generator issues a request before the caller
\* asks for the first element; the number of requests is at most one more
\* than the number of pages the caller has fully consumed; after asking for k
\* elements no request goes beyond the page that holds element k; and a
\* request is only issued while the caller waits for an element.
C23_LazyPagination ==
    [][ /\ LazyBound'
        /\ calls' # calls =>
              /\ asked > Len(yielded)
              /\ asked' = asked
              /\ Len(calls') = Len(calls) + 1
      ]_vars

\* C23 witness: of 9 children in pages of 4 the caller took 5 and stopped;
\* two of the three pages were requested.
C23_Witness ==
    /\ op = "get_child_objects_of_folder" /\ pc = "yield"
    /\ backing_n = 9 /\ args.limit = 4
    /\ asked = 5 /\ Len(yielded) = 5
    /\ Len(calls) = 2

(***************************************************************************)
(* Properties of two interleaved calls.                                    *)
(***************************************************************************)
\* the mapping a batch call run alone has merged after its first k requests:
\* every identifier sent so far, with the value of the last response that
\* held it
AloneMerged(k) ==
    LET sent == UNION {SeqToSet(Batches[c]) : c \in 1..k} IN
    [key \in sent |->
        LET last == SetMax({c \in 1..k : \E i \in DOMAIN Batches[c] : Batches[c][i] = key})
        IN BatchResponse(server_mode, Batches[last], last)[key]]

\* the page token of the c-th request of an iteration run alone over pages of
\* `size` elements
AloneToken(c, size) == IF c = 1 THEN None ELSE Some(IntToStr((c - 1) * size))

\* the running call is where it would be had it run alone: a cursor loop has
\* sent the tokens of the successive pages and produced a prefix of the
\* collection, the whole of it at the end; a batch call has sent the first
\* chunks in order and merged exactly their responses
RunsAsAlone ==
    /\ op \in {"get_child_objects_of_folder", "search_projects"} =>
          /\ \A c \in DOMAIN calls : calls[c].pageToken = AloneToken(c, LazyPageSize)
          /\ IsPrefix(yielded, Backing(backing_n))
          /\ Len(calls) <= Max(1, CeilDiv(backing_n, LazyPageSize))
          /\ pc = "done" =>
                /\ yielded = Backing(backing_n)
                /\ Len(calls) = Max(1, CeilDiv(backing_n, LazyPageSize))
          /\ raised = None
    /\ op \in {"get_paths", "get_projects_by_rids"} =>
          /\ IsPrefix(calls, Batches)
          /\ Len(calls) = batch_i - 1
          /\ result = AloneMerged(Len(calls))
          /\ pc = "done" =>
                (calls = Batches /\ returned = Some(AloneMerged(Len(Batches))))

\* C22: no shared mutable state between calls.  When two calls on one client
\* (cursor loops or batch calls) are interleaved in any order, a step of one
\* changes nothing of the other, and each sends the requests and produces the
\* elements, or the mapping, it would have alone.
C22_NoSharedState ==
    [][ /\ RunsAsAlone
        /\ \/ other' = other
           \/ (other' = Frame /\ Frame' = other)
      ]_vars

\* C22 witness: a folder listing that has sent its second request is parked
\* while a get_paths call, started after it, has returned.
C22_Witness ==
    /\ op = "get_paths" /\ pc = "done"
    /\ Len(calls) = 2
    /\ other.op = "get_child_objects_of_folder"
    /\ other.pc = "yield"
    /\ Len(other.calls) = 2
    /\ other.page_token # None

=============================================================================
